---- MODULE Spec2Model ----
(***************************************************************************)
(* A model of inotify/adapters.py: the Inotify event source (its watch     *)
(* registry and its framer of raw kernel bytes) and the BaseTree recursive *)
(* tree watcher built on it.                                               *)
(*                                                                         *)
(* Byte strings (paths, names, raw reads) are sequences of byte values.    *)
(* Python dicts are functions whose DOMAIN is the key set.  An exception   *)
(* leaving a method is recorded as the method's outcome, with every        *)
(* assignment made before the raise kept.                                  *)
(***************************************************************************)
EXTENDS Integers, Sequences, FiniteSets, TLC

VARIABLES
    watches,     \* Inotify.__watches:   dict path -> wd
    watches_l,   \* Inotify.__watches_l: deque of paths, kept sorted
    watches_r,   \* Inotify.__watches_r: dict wd -> path
    observe,     \* whether calls are recorded in last and rm_calls
    last,        \* the last call made on the Inotify object and how it ended
    rm_calls,    \* the wds that call handed to inotify_rm_watch, in order
    buffer,      \* Inotify.__buffer: bytes read and not yet consumed
    frames,      \* the event frames the kernel delivers, as it encoded them
    pending,     \* the bytes of those frames that os.read has yet to return
    out,         \* the event tuples __handle_inotify_event has yielded
    gen_exc,     \* the exception that ended the generator, "" for none
    fs,          \* the filesystem: inode -> directory entry
    kwatch,      \* the kernel's watches: wd -> [ino, mask]
    next_wd,     \* the next watch descriptor the kernel hands out
    queue,       \* events queued in the kernel for the inotify descriptor
    fs_ops,      \* filesystem changes made so far
    tree_mask,   \* BaseTree._mask
    read_r,      \* __watches_r as it was when the bytes in framing were read
    pc,          \* where the program is (see the steps of the tree watcher)
    q,           \* the queue q of _load_tree
    ctx,         \* who called _load_tree: "init" or "event"
    cur_path,    \* current_path of _load_tree
    ev,          \* the event BaseTree.event_gen holds and has yet to yield
    cycles,      \* poll cycles of Inotify.event_gen ended so far
    produced,    \* the items Inotify.event_gen has yielded
    delivered,   \* the items BaseTree.event_gen has yielded
    load_root,   \* the path the running or last _load_tree was called with
    load_static  \* no filesystem change was made since that call

regVars == <<watches, watches_l, watches_r>>

callVars == <<observe, last, rm_calls>>

framerVars == <<buffer, frames, pending, out, gen_exc>>

kernelVars == <<fs, kwatch, next_wd, queue, fs_ops>>

treeVars == <<tree_mask, read_r, pc, q, ctx, cur_path, ev, cycles, produced,
              delivered, load_root, load_static>>

vars == <<watches, watches_l, watches_r, observe, last, rm_calls,
          buffer, frames, pending, out, gen_exc,
          fs, kwatch, next_wd, queue, fs_ops,
          tree_mask, read_r, pc, q, ctx, cur_path, ev, cycles, produced,
          delivered, load_root, load_static>>

----------------------------------------------------------------------------
(* Bounds of the model.                                                    *)

\* Inodes of the filesystem, the root directory included.
MaxInodes == 4

\* Most filesystem changes made while the tree watcher runs.
MaxFsOps == 2

\* Most poll cycles of Inotify.event_gen.
MaxCycles == 2

\* The kernel hands out watch descriptors 1..MaxWd to the tree watcher.
MaxWd == 6

\* Most frames the kernel delivers in a run of the framer.
MaxFrames == 2

\* Most watches the registry holds at once (add_watch of a new path is not
\* called beyond it).
MaxWatches == 3

\* The kernel service hands out watch descriptors 1..MaxHandle.
MaxHandle == 2

\* Most bits set in a mask handed to __get_event_names.
MaxMaskBits == 2

----------------------------------------------------------------------------
(* Byte strings.                                                           *)

\* b'/', the separator appended in remove_watch_tree.
Slash == <<47>>

\* os.path.join(path, filename) for a relative filename.
PathJoin(path, filename) ==
    IF filename # <<>> /\ Head(filename) = 47 THEN filename
    ELSE IF path = <<>> \/ path[Len(path)] = 47 THEN path \o filename
    ELSE path \o Slash \o filename

\* The paths callers pass: "/a", what lies under it ("/a/a", "/a/a/a"), and
\* two siblings that have "/a" as a string prefix: "/a-" (0x2d sorts before
\* '/') and "/aa" (sorts after it).
Paths ==
    { <<47, 97>>, <<47, 97, 45>>, <<47, 97, 47, 97>>,
      <<47, 97, 47, 97, 47, 97>>, <<47, 97, 97>> }

Handles == 1..MaxHandle

\* Python's ordering of bytes objects: lexicographic by unsigned byte value,
\* a proper prefix sorting first.
RECURSIVE BytesLess(_, _)
BytesLess(a, b) ==
    IF b = <<>> THEN FALSE
    ELSE IF a = <<>> THEN TRUE
    ELSE IF Head(a) # Head(b) THEN Head(a) < Head(b)
    ELSE BytesLess(Tail(a), Tail(b))

\* bytes.startswith
StartsWith(path, prefix) ==
    /\ Len(path) >= Len(prefix)
    /\ SubSeq(path, 1, Len(prefix)) = prefix

\* bisect.bisect (bisect_right) over a[lo..hi), 0-based as in Python.
RECURSIVE BisectRightFrom(_, _, _, _)
BisectRightFrom(a, x, lo, hi) ==
    IF lo >= hi THEN lo
    ELSE LET mid == (lo + hi) \div 2
         IN  IF BytesLess(x, a[mid + 1])
             THEN BisectRightFrom(a, x, lo, mid)
             ELSE BisectRightFrom(a, x, mid + 1, hi)

BisectRight(a, x) == BisectRightFrom(a, x, 0, Len(a))

\* bisect.bisect_left over a[lo..hi), 0-based as in Python.
RECURSIVE BisectLeftFrom(_, _, _, _)
BisectLeftFrom(a, x, lo, hi) ==
    IF lo >= hi THEN lo
    ELSE LET mid == (lo + hi) \div 2
         IN  IF BytesLess(a[mid + 1], x)
             THEN BisectLeftFrom(a, x, mid + 1, hi)
             ELSE BisectLeftFrom(a, x, lo, mid)

BisectLeft(a, x) == BisectLeftFrom(a, x, 0, Len(a))

\* deque.insert(idx, x), idx 0-based.
SeqInsert(s, idx, x) ==
    SubSeq(s, 1, idx) \o <<x>> \o SubSeq(s, idx + 1, Len(s))

\* del s[idx], idx 0-based and in range.
SeqDelete(s, idx) ==
    SubSeq(s, 1, idx) \o SubSeq(s, idx + 2, Len(s))

\* d[k] = v
DictSet(d, k, v) ==
    [x \in DOMAIN d \cup {k} |-> IF x = k THEN v ELSE d[x]]

\* del d[k], k present.
DictDel(d, k) == [x \in DOMAIN d \ {k} |-> d[x]]

SeqRange(s) == { s[i] : i \in 1..Len(s) }

EmptyDict == [x \in {} |-> 0]

----------------------------------------------------------------------------
(* The watch registry of Inotify.  A registry value is the three           *)
(* structures together.                                                    *)

Reg == [w |-> watches, l |-> watches_l, r |-> watches_r]

\* add_watch with the membership test of line 76 left out.
RegAddAlwaysInsert(reg, path, wd) ==
    [w |-> DictSet(reg.w, path, wd),
     l |-> SeqInsert(reg.l, BisectRight(reg.l, path), path),
     r |-> DictSet(reg.r, wd, path)]

\* add_watch after the kernel returned wd.
RegAdd(reg, path, wd) ==
    LET l2 == IF path \notin DOMAIN reg.w
              THEN SeqInsert(reg.l, BisectRight(reg.l, path), path)
              ELSE reg.l
    IN  [w |-> DictSet(reg.w, path, wd),
         l |-> l2,
         r |-> DictSet(reg.r, wd, path)]

\* What inotify_add_watch answers when the kernel rejects the path; the
\* call then raises InotifyError.
Refused == -1

\* An add_watch that registers the path before it looks at the answer.
AddWatchRegisterFirst(reg, path, answer) ==
    [reg |-> RegAdd(reg, path, answer),
     exc |-> IF answer = Refused THEN "InotifyError" ELSE "",
     exc_path |-> IF answer = Refused THEN path ELSE <<>>]

\* add_watch, the kernel answering with a descriptor or rejecting the path
\* (lines 69-73: the path is added to the error's args and the error is
\* re-raised).  exc_path is the path the error carries.
AddWatch(reg, path, answer) ==
    IF answer = Refused
    THEN [reg |-> reg, exc |-> "InotifyError", exc_path |-> path]
    ELSE [reg |-> RegAdd(reg, path, answer), exc |-> "", exc_path |-> <<>>]

\* The outcome of a removal: the registry left behind, the wds handed to
\* inotify_rm_watch (the last one is the failing call when exc is
\* "InotifyError"), and the exception that ended the call ("" for none).
Outcome(reg, rm, exc) == [reg |-> reg, rm |-> rm, exc |-> exc]

\* remove_watch.  dead: the wds for which the kernel refuses rm_watch.
RegRemove(reg, path, superficial, dead) ==
    IF path \notin DOMAIN reg.w THEN Outcome(reg, <<>>, "")
    ELSE
      LET wd  == reg.w[path]
          idx == BisectLeft(reg.l, path)
      IN  IF idx >= Len(reg.l) THEN Outcome(reg, <<>>, "IndexError")
          ELSE
            LET l2 == SeqDelete(reg.l, idx)
                w2 == DictDel(reg.w, path)
            IN  IF wd \notin DOMAIN reg.r
                THEN Outcome([w |-> w2, l |-> l2, r |-> reg.r], <<>>, "KeyError")
                ELSE
                  LET reg2 == [w |-> w2, l |-> l2, r |-> DictDel(reg.r, wd)]
                  IN  IF superficial THEN Outcome(reg2, <<>>, "")
                      ELSE Outcome(reg2, <<wd>>,
                                   IF wd \in dead THEN "InotifyError" ELSE "")

\* The while loop of remove_watch_tree.
RECURSIVE RemoveTreeLoop(_, _, _, _, _, _, _)
RemoveTreeLoop(reg, tree, idx, count, rm, superficial, dead) ==
    IF ~(count > idx) THEN Outcome(reg, rm, "")
    ELSE
      LET path == reg.l[idx + 1]
      IN  IF path # tree /\ ~StartsWith(path, tree \o Slash)
          THEN Outcome(reg, rm, "")
          ELSE
            LET l2 == SeqDelete(reg.l, idx)
            IN  IF path \notin DOMAIN reg.w
                THEN Outcome([reg EXCEPT !.l = l2], rm, "KeyError")
                ELSE
                  LET wd == reg.w[path]
                      w2 == DictDel(reg.w, path)
                  IN  IF wd \notin DOMAIN reg.r
                      THEN Outcome([w |-> w2, l |-> l2, r |-> reg.r],
                                   rm, "KeyError")
                      ELSE
                        LET reg2 == [w |-> w2, l |-> l2,
                                     r |-> DictDel(reg.r, wd)]
                        IN  IF superficial
                            THEN RemoveTreeLoop(reg2, tree, idx, count - 1,
                                                rm, superficial, dead)
                            ELSE IF wd \in dead
                            THEN Outcome(reg2, Append(rm, wd), "InotifyError")
                            ELSE RemoveTreeLoop(reg2, tree, idx, count - 1,
                                                Append(rm, wd), superficial,
                                                dead)

\* remove_watch_tree.
RegRemoveTree(reg, tree, superficial, dead) ==
    IF tree \notin DOMAIN reg.w THEN Outcome(reg, <<>>, "")
    ELSE RemoveTreeLoop(reg, tree, BisectLeft(reg.l, tree), Len(reg.l),
                        <<>>, superficial, dead)

----------------------------------------------------------------------------
(* The registry driven directly through the methods of Inotify, the kernel *)
(* service answering add_watch with any descriptor or a refusal.           *)

SetReg(reg) ==
    /\ watches' = reg.w
    /\ watches_l' = reg.l
    /\ watches_r' = reg.r

Call(op, path, exc) == [op |-> op, path |-> path, exc |-> exc]

\* The call just made, recorded when calls are observed.
Record(op, path, exc, rm) ==
    /\ observe' = observe
    /\ last' = IF observe THEN Call(op, path, exc) ELSE last
    /\ rm_calls' = IF observe THEN rm ELSE rm_calls

\* An inode that holds no entry.
FreeNode == [kind |-> "free", parent |-> 0, name |-> <<>>, target |-> <<>>]

\* No item: BaseTree.event_gen holds no event.
NoEvent == [none |-> TRUE]

\* No tree watcher and no filesystem: the Inotify object is used alone.
TreeIdle ==
    /\ fs = [i \in 1..MaxInodes |-> FreeNode]
    /\ kwatch = EmptyDict
    /\ next_wd = 1
    /\ queue = <<>>
    /\ fs_ops = 0
    /\ tree_mask = 0
    /\ read_r = EmptyDict
    /\ pc = "idle"
    /\ q = <<>>
    /\ ctx = ""
    /\ cur_path = <<>>
    /\ ev = NoEvent
    /\ cycles = 0
    /\ produced = <<>>
    /\ delivered = <<>>
    /\ load_root = <<>>
    /\ load_static = FALSE

\* The framer as __init__ leaves it, with nothing to read.
FramerIdle ==
    /\ buffer = <<>>
    /\ frames = <<>>
    /\ pending = <<>>
    /\ out = <<>>
    /\ gen_exc = ""

InitReg ==
    /\ watches = EmptyDict
    /\ watches_l = <<>>
    /\ watches_r = EmptyDict
    /\ observe = FALSE
    /\ last = Call("init", <<>>, "")
    /\ rm_calls = <<>>
    /\ FramerIdle
    /\ TreeIdle

\* The same, with every call recorded.
InitRegCalls ==
    /\ watches = EmptyDict
    /\ watches_l = <<>>
    /\ watches_r = EmptyDict
    /\ observe = TRUE
    /\ last = Call("init", <<>>, "")
    /\ rm_calls = <<>>
    /\ FramerIdle
    /\ TreeIdle

\* add_watch(path): the kernel returns wd.
add_watch(path, wd) ==
    /\ path \in DOMAIN watches \/ Len(watches_l) < MaxWatches
    /\ LET o == AddWatch(Reg, path, wd)
       IN  /\ SetReg(o.reg)
           /\ Record("add_watch", path, o.exc, <<>>)
    /\ UNCHANGED <<framerVars, kernelVars, treeVars>>

\* add_watch(path): inotify_add_watch raises InotifyError, which is
\* re-raised before the registry is touched.
add_watch_fails(path) ==
    /\ LET o == AddWatch(Reg, path, Refused)
       IN  /\ SetReg(o.reg)
           /\ Record("add_watch", path, o.exc, <<>>)
    /\ UNCHANGED <<framerVars, kernelVars, treeVars>>

remove_watch(path, superficial, dead) ==
    LET o == RegRemove(Reg, path, superficial, dead)
    IN  /\ SetReg(o.reg)
        /\ Record("remove_watch", path, o.exc, o.rm)
        /\ UNCHANGED <<framerVars, kernelVars, treeVars>>

remove_watch_tree(tree, superficial, dead) ==
    LET o == RegRemoveTree(Reg, tree, superficial, dead)
    IN  /\ SetReg(o.reg)
        /\ Record("remove_watch_tree", tree, o.exc, o.rm)
        /\ UNCHANGED <<framerVars, kernelVars, treeVars>>

\* A removal ends at the first refused inotify_rm_watch, so one refused wd
\* (or none) yields every outcome a set of refused wds can.
DeadChoices == { {} } \cup { {h} : h \in Handles }

\* A superficial removal makes no kernel call, so nothing can be refused.
RemovalModes ==
    { [superficial |-> TRUE, dead |-> {}] }
        \cup { [superficial |-> FALSE, dead |-> d] : d \in DeadChoices }

NextReg ==
    \/ \E path \in Paths, wd \in Handles : add_watch(path, wd)
    \/ \E path \in Paths : add_watch_fails(path)
    \/ \E path \in Paths, m \in RemovalModes :
          remove_watch(path, m.superficial, m.dead)
    \/ \E tree \in Paths, m \in RemovalModes :
          remove_watch_tree(tree, m.superficial, m.dead)

SpecReg == InitReg /\ [][NextReg]_vars

SpecRegCalls == InitRegCalls /\ [][NextReg]_vars

\* The calls of add_watch alone, each observed.
NextRegAdd ==
    \/ \E path \in Paths, wd \in Handles : add_watch(path, wd)
    \/ \E path \in Paths : add_watch_fails(path)

SpecRegAdd == InitRegCalls /\ [][NextRegAdd]_vars

----------------------------------------------------------------------------
(* The framer: __handle_inotify_event and what it calls.                   *)

\* struct.calcsize('iIII')
StructHeaderLength == 16

\* The most bytes one os.read returns.
ReadSize == 1024

\* select.POLLIN, the event the inotify descriptor is registered for.
PollIn == 1

\* An unsigned 32-bit field in native (little-endian) byte order, read at
\* 0-based offset off.  No field of the model has its top bit set.
U32(b, off) ==
    b[off + 1] + 256 * b[off + 2] + 65536 * b[off + 3]
        + 16777216 * b[off + 4]

\* A signed 32-bit field.
I32(b, off) ==
    b[off + 1] + 256 * b[off + 2] + 65536 * b[off + 3]
        + 16777216 * (IF b[off + 4] >= 128 THEN b[off + 4] - 256
                      ELSE b[off + 4])

\* _INOTIFY_EVENT(*struct.unpack('iIII', peek_slice))
Unpack(peek_slice) ==
    [wd     |-> I32(peek_slice, 0),
     mask   |-> U32(peek_slice, 4),
     cookie |-> U32(peek_slice, 8),
     len    |-> U32(peek_slice, 12)]

\* No stripping at all.
RStripNone(s) == s

\* bytes.rstrip(b'\0')
RECURSIVE RStripNul(_)
RStripNul(s) ==
    IF s # <<>> /\ s[Len(s)] = 0 THEN RStripNul(SubSeq(s, 1, Len(s) - 1))
    ELSE s

\* a & bit for a natural a and a single-bit flag bit (a power of two), as
\* every key of MASK_LOOKUP and every IN_ constant tested is.
BitAnd(a, bit) == ((a \div bit) % 2) * bit

\* a | bit, for a single bit.
BitOr(a, bit) == a + bit - BitAnd(a, bit)

\* inotify.constants.MASK_LOOKUP in its iteration order, as far as the
\* model's integers reach (IN_ONESHOT, bit 31, is left out and no mask of
\* the model has that bit).
MASK_LOOKUP ==
    << [bit |-> 1,          name |-> "IN_ACCESS"],
       [bit |-> 2,          name |-> "IN_MODIFY"],
       [bit |-> 4,          name |-> "IN_ATTRIB"],
       [bit |-> 8,          name |-> "IN_CLOSE_WRITE"],
       [bit |-> 16,         name |-> "IN_CLOSE_NOWRITE"],
       [bit |-> 32,         name |-> "IN_OPEN"],
       [bit |-> 64,         name |-> "IN_MOVED_FROM"],
       [bit |-> 128,        name |-> "IN_MOVED_TO"],
       [bit |-> 256,        name |-> "IN_CREATE"],
       [bit |-> 512,        name |-> "IN_DELETE"],
       [bit |-> 1024,       name |-> "IN_DELETE_SELF"],
       [bit |-> 2048,       name |-> "IN_MOVE_SELF"],
       [bit |-> 8192,       name |-> "IN_UNMOUNT"],
       [bit |-> 16384,      name |-> "IN_Q_OVERFLOW"],
       [bit |-> 32768,      name |-> "IN_IGNORED"],
       [bit |-> 16777216,   name |-> "IN_ONLYDIR"],
       [bit |-> 33554432,   name |-> "IN_DONT_FOLLOW"],
       [bit |-> 536870912,  name |-> "IN_MASK_ADD"],
       [bit |-> 1073741824, name |-> "IN_ISDIR"] >>

\* The for loop of __get_event_names from table entry i on.
RECURSIVE EventNamesFrom(_, _, _)
EventNamesFrom(i, event_type, names) ==
    IF i > Len(MASK_LOOKUP) THEN [names |-> names, rest |-> event_type]
    ELSE IF BitAnd(event_type, MASK_LOOKUP[i].bit) # 0
    THEN LET left == event_type - MASK_LOOKUP[i].bit
             ns   == Append(names, MASK_LOOKUP[i].name)
         IN  IF left = 0 THEN [names |-> ns, rest |-> 0]
             ELSE EventNamesFrom(i + 1, left, ns)
    ELSE EventNamesFrom(i + 1, event_type, names)

\* __get_event_names without its assert: what the loop collected is returned
\* whatever is left of event_type.
GetEventNamesUnchecked(event_type) ==
    [ok |-> TRUE, names |-> EventNamesFrom(1, event_type, <<>>).names]

\* __get_event_names: the names, or ok = FALSE when the assert fails.
GetEventNames(event_type) ==
    LET res == EventNamesFrom(1, event_type, <<>>)
    IN  [ok |-> res.rest = 0, names |-> res.names]

\* self.__buffer = b
BufferReplace(buf, b) == b

\* self.__buffer += b
BufferAppend(buf, b) == buf \o b

\* One pass of the while loop of __handle_inotify_event over buffer buf,
\* resolving the handle in the inverse map r:
\*   "stop"  the loop ends for want of bytes (lines 159-161, 175-176);
\*   "raise" the assert of __get_event_names fails on the header's mask;
\*   "yield" a frame was consumed and its tuple is yielded (line 187);
\*   "skip"  a frame was consumed and nothing is yielded (line 186).
FrameStep(buf, r) ==
    LET length == Len(buf)
    IN  IF length < StructHeaderLength
        THEN [kind |-> "stop", buffer |-> buf]
        ELSE
          LET header       == Unpack(SubSeq(buf, 1, StructHeaderLength))
              type_names   == GetEventNames(header.mask)
              event_length == StructHeaderLength + header.len
          IN  IF ~type_names.ok
              THEN [kind |-> "raise", buffer |-> buf]
              ELSE IF length < event_length
              THEN [kind |-> "stop", buffer |-> buf]
              ELSE
                LET filename == RStripNul(SubSeq(buf, StructHeaderLength + 1,
                                                 event_length))
                    rest     == SubSeq(buf, event_length + 1, length)
                IN  IF header.wd \in DOMAIN r
                    THEN [kind   |-> "yield",
                          buffer |-> rest,
                          event  |-> [header     |-> header,
                                      type_names |-> type_names.names,
                                      path       |-> r[header.wd],
                                      filename   |-> filename]]
                    ELSE [kind |-> "skip", buffer |-> rest]

\* What one call of the generator leaves when it is run to its end.
Handled(buf, events, exc) == [buffer |-> buf, events |-> events, exc |-> exc]

\* The while loop run until it ends, the inverse map r not changing.
RECURSIVE FrameLoop(_, _, _)
FrameLoop(buf, r, events) ==
    LET step == FrameStep(buf, r)
    IN  CASE step.kind = "stop"  -> Handled(step.buffer, events, "")
          [] step.kind = "raise" -> Handled(step.buffer, events, "AssertionError")
          [] step.kind = "yield" ->
                FrameLoop(step.buffer, r, Append(events, step.event))
          [] step.kind = "skip"  -> FrameLoop(step.buffer, r, events)

\* __handle_inotify_event(wd, event_type), os.read returning b, iterated to
\* its end by the for loop of event_gen.
HandleInotifyEvent(buf, event_type, b, r) ==
    IF ~GetEventNames(event_type).ok THEN Handled(buf, <<>>, "AssertionError")
    ELSE IF b = <<>> THEN Handled(buf, <<>>, "")
    ELSE FrameLoop(BufferAppend(buf, b), r, <<>>)

----------------------------------------------------------------------------
(* The kernel's side of the byte stream.                                   *)

\* The four bytes of a 32-bit field, least significant first.
LE32(v) ==
    << v % 256, (v \div 256) % 256, (v \div 65536) % 256,
       (v \div 16777216) % 256 >>

Zeros(n) == [i \in 1..n |-> 0]

\* The name field of an event: nothing for an event without a name, else
\* the name, NUL-terminated and padded to a multiple of the header size.
NameField(name) ==
    IF name = <<>> THEN <<>>
    ELSE LET size == ((Len(name) + 1 + StructHeaderLength - 1)
                          \div StructHeaderLength) * StructHeaderLength
         IN  name \o Zeros(size - Len(name))

\* struct inotify_event {wd, mask, cookie, len} followed by the name field.
Encode(f) ==
    LE32(f.wd) \o LE32(f.mask) \o LE32(f.cookie)
        \o LE32(Len(NameField(f.name))) \o NameField(f.name)

RECURSIVE EncodeAll(_)
EncodeAll(fr) ==
    IF fr = <<>> THEN <<>> ELSE Encode(Head(fr)) \o EncodeAll(Tail(fr))

\* Frames the kernel may queue: a directory "a" created under the watched
\* directory (IN_CREATE | IN_ISDIR), the watched directory deleted
\* (IN_DELETE_SELF, no name), and a frame with a bit MASK_LOOKUP lacks.
FrameKinds ==
    { [mask |-> 1073742080, name |-> <<97>>],
      [mask |-> 1024,       name |-> <<>>],
      [mask |-> 65536,      name |-> <<>>] }

\* The watch descriptors the frames carry.
FrameHandles == {1, 2}

StreamFrames ==
    { [wd |-> wd, mask |-> k.mask, cookie |-> 0, name |-> k.name] :
          wd \in FrameHandles, k \in FrameKinds }

Streams == UNION { [1..n -> StreamFrames] : n \in 0..MaxFrames }

\* The registry the framer runs against: handle 1 watches "/a", handle 2
\* is not (or no longer) registered.
FramerRegistry ==
    [w |-> (<<47, 97>> :> 1), l |-> << <<47, 97>> >>, r |-> (1 :> <<47, 97>>)]

InitFramer ==
    /\ watches = FramerRegistry.w
    /\ watches_l = FramerRegistry.l
    /\ watches_r = FramerRegistry.r
    /\ observe = FALSE
    /\ last = Call("init", <<>>, "")
    /\ rm_calls = <<>>
    /\ buffer = <<>>
    /\ frames \in Streams
    /\ pending = EncodeAll(frames)
    /\ out = <<>>
    /\ gen_exc = ""
    /\ TreeIdle

\* One poll cycle in which the descriptor is readable: os.read returns the
\* next n bytes and the generator is run to its end.
Read(n) ==
    /\ gen_exc = ""
    /\ n \in 1..Len(pending)
    /\ n <= ReadSize
    /\ LET h == HandleInotifyEvent(buffer, PollIn, SubSeq(pending, 1, n),
                                   watches_r)
       IN  /\ buffer' = h.buffer
           /\ out' = out \o h.events
           /\ gen_exc' = h.exc
    /\ pending' = SubSeq(pending, n + 1, Len(pending))
    /\ UNCHANGED <<regVars, callVars, frames, kernelVars, treeVars>>

\* os.read returns b'': the call returns at line 152.
ReadNothing ==
    /\ gen_exc = ""
    /\ LET h == HandleInotifyEvent(buffer, PollIn, <<>>, watches_r)
       IN  /\ buffer' = h.buffer
           /\ out' = out \o h.events
           /\ gen_exc' = h.exc
    /\ UNCHANGED <<regVars, callVars, frames, pending, kernelVars, treeVars>>

NextFramer ==
    \/ \E n \in 1..Len(pending) : Read(n)
    \/ ReadNothing

SpecFramer == InitFramer /\ [][NextFramer]_vars

\* The bits of MASK_LOOKUP, and bits of a 32-bit mask it has no name for.
KnownBits == { MASK_LOOKUP[i].bit : i \in 1..Len(MASK_LOOKUP) }

UnknownBits == {4096, 65536, 268435456}

\* The bits set in a mask are OR-ed together one at a time.
RECURSIVE OrBits(_)
OrBits(bits) ==
    IF bits = <<>> THEN 0 ELSE BitOr(OrBits(Tail(bits)), Head(bits))

\* The masks with at most MaxMaskBits bits set, known or not.
Masks ==
    { OrBits(bits) : bits \in UNION { [1..n -> KnownBits \cup UnknownBits] :
                                          n \in 0..MaxMaskBits } }

\* An event without a name for handle 1, carrying the mask m.
MaskFrame(m) == [wd |-> 1, mask |-> m, cookie |-> 0, name |-> <<>>]

\* The framer about to read one frame whose mask is any of Masks.
InitMask ==
    /\ watches = FramerRegistry.w
    /\ watches_l = FramerRegistry.l
    /\ watches_r = FramerRegistry.r
    /\ observe = FALSE
    /\ last = Call("init", <<>>, "")
    /\ rm_calls = <<>>
    /\ buffer = <<>>
    /\ frames \in { <<MaskFrame(m)>> : m \in Masks }
    /\ pending = EncodeAll(frames)
    /\ out = <<>>
    /\ gen_exc = ""
    /\ TreeIdle

SpecMask == InitMask /\ [][NextFramer]_vars

----------------------------------------------------------------------------
(* The filesystem and the kernel's side of inotify, as the tree watcher    *)
(* meets them through inotify.calls, os.listdir and os.path.isdir.         *)
(* The kernel queues the events of directories coming and going; those of  *)
(* a directory being opened and read (IN_OPEN, IN_ACCESS, IN_CLOSE_NOWRITE) *)
(* reach no branch of BaseTree.event_gen and are left out.                 *)

IN_MODIFY == 2
IN_MOVED_FROM == 64
IN_MOVED_TO == 128
IN_CREATE == 256
IN_DELETE == 512
IN_DELETE_SELF == 1024
IN_MOVE_SELF == 2048
IN_IGNORED == 32768
IN_ISDIR == 1073741824
IN_ALL_EVENTS == 4095

Inodes == 1..MaxInodes

\* The inode of the directory the tree watcher is started on, and its path.
RootInode == 1
RootPath == <<47, 97>>

\* The names directory entries take: "a" and "a-".  The byte of '-' sorts
\* before the byte of '/'.
EntryNames == { <<97>>, <<97, 45>> }

DirNode(parent, name) ==
    [kind |-> "dir", parent |-> parent, name |-> name, target |-> <<>>]

FileNode(parent, name) ==
    [kind |-> "file", parent |-> parent, name |-> name, target |-> <<>>]

LinkNode(parent, name, target) ==
    [kind |-> "link", parent |-> parent, name |-> name, target |-> target]

\* The entry named name in directory inode p, 0 for none.
Child(f, p, name) ==
    LET c == { i \in Inodes : /\ f[i].kind # "free"
                              /\ i # RootInode
                              /\ f[i].parent = p
                              /\ f[i].name = name }
    IN  IF p = 0 \/ c = {} THEN 0 ELSE CHOOSE i \in c : TRUE

Children(f, p) ==
    { i \in Inodes : f[i].kind # "free" /\ i # RootInode /\ f[i].parent = p }

\* Inode i is reached from the root directory (it was not moved out of it).
RECURSIVE InTree(_, _)
InTree(f, i) ==
    \/ i = RootInode
    \/ /\ f[i].kind # "free"
       /\ f[i].parent # 0
       /\ InTree(f, f[i].parent)

\* Inode a is i or a directory above i.
RECURSIVE IsAncestor(_, _, _)
IsAncestor(f, a, i) ==
    \/ a = i
    \/ /\ i # RootInode
       /\ f[i].parent # 0
       /\ IsAncestor(f, a, f[i].parent)

\* The path of inode i of the tree, by its chain of parents.
RECURSIVE RealPath(_, _)
RealPath(f, i) ==
    IF i = RootInode THEN RootPath
    ELSE PathJoin(RealPath(f, f[i].parent), f[i].name)

EndsWith(s, t) ==
    /\ Len(t) <= Len(s)
    /\ SubSeq(s, Len(s) - Len(t) + 1, Len(s)) = t

\* Path resolution as stat() does it, symbolic links followed (the last
\* one too): the inode path names, 0 if it names none.  fuel bounds the
\* links followed (ELOOP).
RECURSIVE Lookup(_, _, _)
Lookup(f, path, fuel) ==
    IF path = RootPath THEN RootInode
    ELSE
      LET names == { n \in EntryNames :
                        /\ Len(path) > Len(n) + 1
                        /\ EndsWith(path, Slash \o n) }
      IN  IF names = {} THEN 0
          ELSE
            LET n == CHOOSE x \in names : TRUE
                p == Lookup(f, SubSeq(path, 1, Len(path) - Len(n) - 1), fuel)
                c == IF p = 0 \/ f[p].kind # "dir" THEN 0 ELSE Child(f, p, n)
            IN  IF c = 0 THEN 0
                ELSE IF f[c].kind # "link" THEN c
                ELSE IF fuel = 0 THEN 0
                ELSE Lookup(f, f[c].target, fuel - 1)

Stat(f, path) == Lookup(f, path, MaxInodes)

\* os.path.isdir(path): true for a directory and for a symbolic link that
\* leads to one.
IsDir(f, path) == Stat(f, path) # 0 /\ f[Stat(f, path)].kind = "dir"

\* The watch descriptor the kernel holds for inode i, 0 for none.
WdOf(kw, i) ==
    LET c == { wd \in DOMAIN kw : kw[wd].ino = i }
    IN  IF c = {} THEN 0 ELSE CHOOSE wd \in c : TRUE

\* The event the kernel queues for the watch on inode i, if that watch
\* exists and asked for the event bit (IN_IGNORED is sent to every watch).
Notify(kw, i, bit, flags, cookie, name) ==
    LET wd == WdOf(kw, i)
    IN  IF wd = 0 THEN <<>>
        ELSE IF bit # IN_IGNORED /\ BitAnd(kw[wd].mask, bit) = 0 THEN <<>>
        ELSE << [wd |-> wd, mask |-> bit + flags, cookie |-> cookie,
                 name |-> name] >>

FreeInodes == { i \in Inodes : fs[i].kind = "free" }

\* What every change of the filesystem shares: it happens while the program
\* runs, between two of its steps, and leaves the program's state alone.
FsChange ==
    /\ fs_ops < MaxFsOps
    /\ pc \notin {"idle", "raised"}
    /\ fs_ops' = fs_ops + 1
    /\ load_static' = FALSE
    /\ UNCHANGED <<regVars, callVars, framerVars, tree_mask, read_r, pc, q,
                   ctx,
                   cur_path, ev, cycles, produced, delivered, load_root>>

\* mkdir: a directory named name appears in directory p.
Mkdir(p, name) ==
    /\ FsChange
    /\ fs[p].kind = "dir" /\ InTree(fs, p)
    /\ Child(fs, p, name) = 0
    /\ FreeInodes # {}
    /\ LET i == CHOOSE x \in FreeInodes : \A y \in FreeInodes : x <= y
       IN  fs' = [fs EXCEPT ![i] = DirNode(p, name)]
    /\ queue' = queue \o Notify(kwatch, p, IN_CREATE, IN_ISDIR, 0, name)
    /\ UNCHANGED <<kwatch, next_wd>>

\* rmdir of the empty directory i: its parent is told, then the watch on i
\* is told and dropped by the kernel.
Rmdir(i) ==
    /\ FsChange
    /\ i # RootInode
    /\ fs[i].kind = "dir"
    /\ Children(fs, i) = {}
    /\ fs' = [fs EXCEPT ![i] = FreeNode]
    /\ queue' = queue
          \o (IF fs[i].parent = 0 THEN <<>>
              ELSE Notify(kwatch, fs[i].parent, IN_DELETE, IN_ISDIR, 0,
                          fs[i].name))
          \o Notify(kwatch, i, IN_DELETE_SELF, 0, 0, <<>>)
          \o Notify(kwatch, i, IN_IGNORED, 0, 0, <<>>)
    /\ kwatch' = [wd \in DOMAIN kwatch \ {WdOf(kwatch, i)} |-> kwatch[wd]]
    /\ UNCHANGED next_wd

\* rename of directory i to name in directory p; p = 0 moves it to a place
\* outside the root directory.  A directory outside can be moved in.
Rename(i, p, name) ==
    /\ FsChange
    /\ i # RootInode
    /\ fs[i].kind = "dir"
    /\ IF p = 0 THEN fs[i].parent # 0 /\ name = fs[i].name
       ELSE /\ fs[p].kind = "dir" /\ InTree(fs, p)
            /\ ~IsAncestor(fs, i, p)
            /\ Child(fs, p, name) = 0
    /\ fs' = [fs EXCEPT ![i].parent = p, ![i].name = name]
    /\ queue' = queue
          \o (IF fs[i].parent = 0 THEN <<>>
              ELSE Notify(kwatch, fs[i].parent, IN_MOVED_FROM, IN_ISDIR,
                          fs_ops + 1, fs[i].name))
          \o (IF p = 0 THEN <<>>
              ELSE Notify(kwatch, p, IN_MOVED_TO, IN_ISDIR, fs_ops + 1, name))
          \o Notify(kwatch, i, IN_MOVE_SELF, 0, 0, <<>>)
    /\ UNCHANGED <<kwatch, next_wd>>

\* A regular file named name is created in directory p.
CreateFile(p, name) ==
    /\ FsChange
    /\ fs[p].kind = "dir" /\ InTree(fs, p)
    /\ Child(fs, p, name) = 0
    /\ FreeInodes # {}
    /\ LET i == CHOOSE x \in FreeInodes : \A y \in FreeInodes : x <= y
       IN  fs' = [fs EXCEPT ![i] = FileNode(p, name)]
    /\ queue' = queue \o Notify(kwatch, p, IN_CREATE, 0, 0, name)
    /\ UNCHANGED <<kwatch, next_wd>>

----------------------------------------------------------------------------
(* InotifyTree: the constructor's _load_tree, then BaseTree.event_gen      *)
(* pulling from Inotify.event_gen.  The program is sequential; pc tells    *)
(* where it is, and the filesystem changes between its system calls:       *)
(*   "add"    _load_tree is about to call add_watch on the head of q       *)
(*   "list"   _load_tree is about to list current_path                     *)
(*   "poll"   Inotify.event_gen is about to poll                           *)
(*   "frame"  os.read has returned; the framer is between two frames       *)
(*   "raised" an exception has left event_gen or the constructor           *)

\* BaseTree.__init__: the mask every watch of the tree is added with.
TreeMask(mask) ==
    BitOr(BitOr(BitOr(BitOr(BitOr(mask, IN_ISDIR), IN_CREATE), IN_DELETE),
                IN_MOVED_FROM), IN_MOVED_TO)

\* The masks callers pass.
UserMasks == {IN_ALL_EVENTS, IN_MODIFY}

\* The filesystems the tree watcher is started on: an inode table with the
\* entries given and the other inodes free.
MkFs(entries) ==
    [i \in Inodes |-> IF i = RootInode THEN DirNode(0, <<97>>)
                      ELSE IF i \in DOMAIN entries THEN entries[i]
                      ELSE FreeNode]

\* /a alone; /a/a; /a/a, /a/a- and /a/a/a; /a/a and a symbolic link /a/a-
\* to it; /a/a and a regular file /a/a-.
InitialTrees ==
    { MkFs(EmptyDict),
      MkFs(2 :> DirNode(1, <<97>>)),
      MkFs(2 :> DirNode(1, <<97>>) @@ 3 :> DirNode(1, <<97, 45>>)
             @@ 4 :> DirNode(2, <<97>>)),
      MkFs(2 :> DirNode(1, <<97>>)
             @@ 3 :> LinkNode(1, <<97, 45>>, <<47, 97, 47, 97>>)),
      MkFs(2 :> DirNode(1, <<97>>) @@ 3 :> FileNode(1, <<97, 45>>)) }

InitTree ==
    /\ watches = EmptyDict
    /\ watches_l = <<>>
    /\ watches_r = EmptyDict
    /\ observe = TRUE
    /\ last = Call("init", <<>>, "")
    /\ rm_calls = <<>>
    /\ FramerIdle
    /\ fs \in InitialTrees
    /\ kwatch = EmptyDict
    /\ next_wd = 1
    /\ queue = <<>>
    /\ fs_ops = 0
    /\ tree_mask \in { TreeMask(m) : m \in UserMasks }
    /\ read_r = EmptyDict
    /\ pc = "add"
    /\ q = << RootPath >>
    /\ ctx = "init"
    /\ cur_path = <<>>
    /\ ev = NoEvent
    /\ cycles = 0
    /\ produced = <<>>
    /\ delivered = <<>>
    /\ load_root = RootPath
    /\ load_static = TRUE

\* An exception leaves the program; the event held is not yielded.
Raise ==
    /\ pc' = "raised"
    /\ UNCHANGED <<ev, produced, delivered, cycles, ctx, load_root>>

\* _load_tree lines 286-289: the head of q is taken and add_watch called on
\* it.  inotify_add_watch resolves the path, symbolic links followed, and
\* answers with the descriptor the inode already has, or a new one.
LoadAdd ==
    /\ pc = "add"
    /\ LET current == Head(q)
           ino     == Stat(fs, current)
           old     == WdOf(kwatch, ino)
           wd      == IF old # 0 THEN old ELSE next_wd
       IN  /\ q' = Tail(q)
           /\ cur_path' = current
           /\ IF ino = 0
              THEN /\ Raise
                   /\ Record("add_watch", current, "InotifyError", <<>>)
                   /\ UNCHANGED <<regVars, kwatch, next_wd>>
              ELSE /\ wd <= MaxWd
                   /\ kwatch' = DictSet(kwatch, wd,
                                        [ino |-> ino, mask |-> tree_mask])
                   /\ next_wd' = IF old # 0 THEN next_wd ELSE next_wd + 1
                   /\ SetReg(RegAdd(Reg, current, wd))
                   /\ Record("add_watch", current, "", <<>>)
                   /\ pc' = "list"
                   /\ UNCHANGED <<ev, produced, delivered, cycles, ctx,
                                  load_root>>
    /\ UNCHANGED <<framerVars, fs, queue, fs_ops, tree_mask, read_r,
                   load_static>>

\* The orders os.listdir may return the entries of a directory in.
Orders(S) ==
    { s \in [1..Cardinality(S) -> S] :
          \A i, j \in 1..Cardinality(S) : s[i] = s[j] => i = j }

\* The entries of order that os.path.isdir accepts, as paths (lines
\* 291-296).
RECURSIVE SubDirs(_, _, _)
SubDirs(f, current, order) ==
    IF order = <<>> THEN <<>>
    ELSE LET entry_filepath == PathJoin(current, f[Head(order)].name)
             rest == SubDirs(f, current, Tail(order))
         IN  IF IsDir(f, entry_filepath) THEN <<entry_filepath>> \o rest
             ELSE rest

\* _load_tree lines 291-296 and the test of the while loop: current_path is
\* listed; when q is left empty _load_tree returns, to the constructor or
\* to event_gen, which yields the event it holds (line 281).
LoadList ==
    /\ pc = "list"
    /\ LET ino == Stat(fs, cur_path)
       IN  IF ino = 0 \/ fs[ino].kind # "dir"
           THEN /\ Raise
                /\ Record("listdir", cur_path, "OSError", <<>>)
                /\ UNCHANGED q
           ELSE \E order \in Orders(Children(fs, ino)) :
                  LET q2 == q \o SubDirs(fs, cur_path, order)
                  IN  /\ q' = q2
                      /\ Record("listdir", cur_path, "", <<>>)
                      /\ IF q2 # <<>>
                         THEN /\ pc' = "add"
                              /\ UNCHANGED <<ev, delivered>>
                         ELSE IF ctx = "init"
                         THEN /\ pc' = "poll"
                              /\ UNCHANGED <<ev, delivered>>
                         ELSE /\ pc' = "frame"
                              /\ delivered' = Append(delivered, ev)
                              /\ ev' = NoEvent
                      /\ UNCHANGED <<produced, cycles, ctx, load_root>>
    /\ UNCHANGED <<regVars, framerVars, kernelVars, tree_mask, read_r, cur_path,
                   load_static>>

\* The events one os.read of ReadSize bytes returns: the kernel hands over
\* whole events, as many from the front of its queue as fit.
RECURSIVE ReadCount(_, _)
ReadCount(evs, room) ==
    IF evs = <<>> \/ Len(Encode(Head(evs))) > room THEN 0
    ELSE 1 + ReadCount(Tail(evs), room - Len(Encode(Head(evs))))

\* A poll cycle that yields nothing at its end.
EndCycleSilently(items) == items

\* Line 221: the cycle ends with yield None.
EndCycle(items) == Append(items, NoEvent)

\* Inotify.event_gen lines 200-221, a poll that times out: the for loop
\* has nothing to run over and None is yielded, which BaseTree.event_gen
\* yields in turn (lines 243, 281).  cycles counts the polls that returned.
PollTimeout ==
    /\ pc = "poll"
    /\ cycles < MaxCycles
    /\ queue = <<>>
    /\ produced' = EndCycle(produced)
    /\ delivered' = EndCycle(delivered)
    /\ cycles' = cycles + 1
    /\ Record("poll", <<>>, "", <<>>)
    /\ UNCHANGED <<regVars, framerVars, kernelVars, tree_mask, read_r, pc, q,
                   ctx,
                   cur_path, ev, load_root, load_static>>

\* The descriptor is readable: __handle_inotify_event reads (line 150) and
\* appends to the buffer (line 154).
PollRead ==
    /\ pc = "poll"
    /\ cycles < MaxCycles
    /\ queue # <<>>
    /\ LET n == ReadCount(queue, ReadSize)
       IN  /\ n > 0
           /\ buffer' = BufferAppend(buffer, EncodeAll(SubSeq(queue, 1, n)))
           /\ queue' = SubSeq(queue, n + 1, Len(queue))
    /\ pc' = "frame"
    /\ cycles' = cycles + 1
    /\ read_r' = watches_r
    /\ Record("read", <<>>, "", <<>>)
    /\ UNCHANGED <<regVars, frames, pending, out, gen_exc, fs, kwatch,
                   next_wd, fs_ops, tree_mask, q, ctx, cur_path, ev,
                   produced, delivered, load_root, load_static>>

\* The errno of line 8, and one that is not of the interrupt class (EBADF).
EINTR == 4
EBADF == 9

\* A poll handling that lets every failure propagate.
PollFailureAlwaysRaise(errno) == "raise"

\* Lines 206-210: what event_gen does with an IOError of epoll.poll.
PollFailure(errno) == IF errno # EINTR THEN "raise" ELSE "continue"

\* epoll.poll raises IOError with errno (lines 205-210): the loop goes
\* round to poll again, or the error leaves event_gen.
PollFails(errno) ==
    /\ pc = "poll"
    /\ cycles < MaxCycles
    /\ pc' = IF PollFailure(errno) = "raise" THEN "raised" ELSE "poll"
    /\ Record("poll", <<>>, IF errno = EINTR THEN "EINTR" ELSE "IOError",
              <<>>)
    /\ UNCHANGED <<regVars, framerVars, kernelVars, tree_mask, read_r, q, ctx,
                   cur_path, ev, cycles, produced, delivered, load_root,
                   load_static>>

\* Successful inotify_rm_watch calls for the descriptors wds: the kernel
\* drops each watch and queues IN_IGNORED for it.
RECURSIVE Ignored(_)
Ignored(wds) ==
    IF wds = <<>> THEN <<>>
    ELSE << [wd |-> Head(wds), mask |-> IN_IGNORED, cookie |-> 0,
             name |-> <<>>] >> \o Ignored(Tail(wds))

\* The calls of rm that the kernel accepted: all but a refused last one.
Accepted(o) ==
    IF o.exc = "InotifyError" THEN SubSeq(o.rm, 1, Len(o.rm) - 1) ELSE o.rm

\* A tree watcher that installs no watch for a directory created or moved
\* in, and handles the removals as BaseTree.event_gen does.
MaintainRemovalsOnly(reg, kw, e) ==
    LET full_path == PathJoin(e.path, e.filename)
        none == [op |-> "none", path |-> full_path,
                 o |-> Outcome(reg, <<>>, "")]
    IN  IF BitAnd(e.header.mask, IN_ISDIR) = 0 THEN none
        ELSE IF BitAnd(e.header.mask, IN_CREATE) # 0
             \/ BitAnd(e.header.mask, IN_MOVED_TO) # 0
        THEN none
        ELSE IF BitAnd(e.header.mask, IN_DELETE) # 0
        THEN [op |-> "remove_watch", path |-> full_path,
              o |-> RegRemove(reg, full_path, TRUE, {})]
        ELSE IF BitAnd(e.header.mask, IN_MOVED_FROM) # 0
        THEN [op |-> "remove_watch_tree", path |-> full_path,
              o |-> RegRemoveTree(reg, full_path, FALSE,
                                  (1..MaxWd) \ DOMAIN kw)]
        ELSE none

\* What BaseTree.event_gen does to the registry for event e (lines
\* 248-279): "load" for a directory created or moved in, else the outcome
\* of the removal, else nothing.
Maintain(reg, kw, e) ==
    LET full_path == PathJoin(e.path, e.filename)
        none == [op |-> "none", path |-> full_path,
                 o |-> Outcome(reg, <<>>, "")]
    IN  IF BitAnd(e.header.mask, IN_ISDIR) = 0 THEN none
        ELSE IF BitAnd(e.header.mask, IN_CREATE) # 0
             \/ BitAnd(e.header.mask, IN_MOVED_TO) # 0
        THEN [op |-> "load", path |-> full_path, o |-> Outcome(reg, <<>>, "")]
        ELSE IF BitAnd(e.header.mask, IN_DELETE) # 0
        THEN [op |-> "remove_watch", path |-> full_path,
              o |-> RegRemove(reg, full_path, TRUE, {})]
        ELSE IF BitAnd(e.header.mask, IN_MOVED_FROM) # 0
        THEN [op |-> "remove_watch_tree", path |-> full_path,
              o |-> RegRemoveTree(reg, full_path, FALSE,
                                  (1..MaxWd) \ DOMAIN kw)]
        ELSE none

\* A framer that resolves every frame of a read in the inverse map as it
\* was when the bytes were read.
DecodeRegistryAtRead(now, at_read) == at_read

\* Line 185: self.__watches_r.get(header.wd) runs when the generator is
\* resumed for the frame, on the inverse map as it is then.
DecodeRegistry(now, at_read) == now

\* One pass of the framer's loop and, for a frame that is yielded, the
\* body of the for loop of BaseTree.event_gen up to its yield or, for a
\* directory created or moved in, up to the call of _load_tree.  When the
\* framer's loop ends, Inotify.event_gen yields None (line 221).
Frame ==
    /\ pc = "frame"
    /\ LET step == FrameStep(buffer, DecodeRegistry(watches_r, read_r))
       IN  /\ buffer' = step.buffer
           /\ read_r' = IF step.kind = "stop" THEN EmptyDict ELSE read_r
           /\ CASE step.kind = "stop" ->
                     /\ produced' = EndCycle(produced)
                     /\ delivered' = EndCycle(delivered)
                     /\ cycles' = cycles
                     /\ pc' = "poll"
                     /\ Record("none", <<>>, "", <<>>)
                     /\ UNCHANGED <<regVars, kwatch, queue, q, ctx, ev,
                                    load_root, load_static>>
                [] step.kind = "raise" ->
                     /\ Raise
                     /\ Record("none", <<>>, "AssertionError", <<>>)
                     /\ UNCHANGED <<regVars, kwatch, queue, q, load_static>>
                [] step.kind = "skip" ->
                     /\ Record("none", <<>>, "", <<>>)
                     /\ UNCHANGED <<regVars, kwatch, queue, q, ctx, ev, pc,
                                    cycles, produced, delivered, load_root,
                                    load_static>>
                [] step.kind = "yield" ->
                     LET m == Maintain(Reg, kwatch, step.event)
                     IN  /\ produced' = Append(produced, step.event)
                         /\ SetReg(m.o.reg)
                         /\ Record(m.op, m.path, m.o.exc, m.o.rm)
                         /\ kwatch' = [wd \in DOMAIN kwatch \
                                            SeqRange(Accepted(m.o)) |->
                                          kwatch[wd]]
                         /\ queue' = queue \o Ignored(Accepted(m.o))
                         /\ cycles' = cycles
                         /\ IF m.op = "load"
                            THEN /\ pc' = "add"
                                 /\ q' = << m.path >>
                                 /\ ctx' = "event"
                                 /\ ev' = step.event
                                 /\ load_root' = m.path
                                 /\ load_static' = TRUE
                                 /\ UNCHANGED delivered
                            ELSE IF m.o.exc # ""
                            THEN /\ pc' = "raised"
                                 /\ ev' = step.event
                                 /\ UNCHANGED <<delivered, q, ctx, load_root,
                                                load_static>>
                            ELSE /\ delivered' = Append(delivered, step.event)
                                 /\ UNCHANGED <<pc, q, ctx, ev, load_root,
                                                load_static>>
    /\ UNCHANGED <<frames, pending, out, gen_exc, fs, next_wd, fs_ops,
                   tree_mask, cur_path>>

NextTree ==
    \/ LoadAdd
    \/ LoadList
    \/ PollTimeout
    \/ PollRead
    \/ \E errno \in {EINTR, EBADF} : PollFails(errno)
    \/ Frame
    \/ \E p \in Inodes, name \in EntryNames : Mkdir(p, name)
    \/ \E i \in Inodes : Rmdir(i)
    \/ \E i \in Inodes, p \in 0..MaxInodes, name \in EntryNames :
          Rename(i, p, name)

SpecTree == InitTree /\ [][NextTree]_vars

----------------------------------------------------------------------------
(* The end-to-end scenario: InotifyTree on a fresh empty directory D; D/x  *)
(* is created; the file D/x/y is created once the consumer has been        *)
(* yielded the event of x.                                                 *)

\* Item e is an event with these flags for filename in the directory
\* watched as path.
IsEvent(e, mask, path, filename) ==
    /\ e # NoEvent
    /\ e.header.mask = mask
    /\ e.path = path
    /\ e.filename = filename

InitEndToEnd ==
    /\ InitTree
    /\ fs = MkFs(EmptyDict)

\* mkdir D/x, whatever the name x.
CreateX ==
    /\ fs_ops = 0
    /\ \E name \in EntryNames : Mkdir(RootInode, name)

\* The consumer, having received the event of x, creates D/x/y, whatever
\* the name y.
CreateY ==
    /\ fs_ops = 1
    /\ \E x \in Children(fs, RootInode), name \in EntryNames :
          /\ \E k \in 1..Len(delivered) :
                IsEvent(delivered[k], IN_CREATE + IN_ISDIR, RootPath,
                        fs[x].name)
          /\ CreateFile(x, name)

NextEndToEnd ==
    \/ LoadAdd
    \/ LoadList
    \/ PollTimeout
    \/ PollRead
    \/ Frame
    \/ CreateX
    \/ CreateY

SpecEndToEnd == InitEndToEnd /\ [][NextEndToEnd]_vars

----------------------------------------------------------------------------
(* Properties of the framer.                                               *)

\* The bytes os.read has returned so far.
BytesRead ==
    SubSeq(EncodeAll(frames), 1, Len(EncodeAll(frames)) - Len(pending))

\* The tuple the generator yields for frame f of a registered handle.
EventOf(f) ==
    [header     |-> [wd |-> f.wd, mask |-> f.mask, cookie |-> f.cookie,
                     len |-> Len(NameField(f.name))],
     type_names |-> GetEventNames(f.mask).names,
     path       |-> watches_r[f.wd],
     filename   |-> f.name]

Registered(f) == f.wd \in DOMAIN watches_r

RECURSIVE EventsOf(_)
EventsOf(fr) ==
    IF fr = <<>> THEN <<>>
    ELSE IF Registered(Head(fr)) THEN <<EventOf(Head(fr))>> \o EventsOf(Tail(fr))
    ELSE EventsOf(Tail(fr))

\* Every byte was read and consumed and the generator was never ended by an
\* exception.
FramerDone == pending = <<>> /\ buffer = <<>> /\ gen_exc = ""

\* C5: however the bytes were cut into reads, the events yielded so far, the
\* way the generator ended and the bytes kept in the buffer are those of one
\* read returning all the bytes read so far; the buffer is the unconsumed
\* tail of those bytes.
C5_SplitInvariant ==
    LET one == HandleInotifyEvent(<<>>, PollIn, BytesRead, watches_r)
    IN  /\ out = one.events
        /\ gen_exc = one.exc
        /\ buffer = one.buffer
        /\ buffer = SubSeq(BytesRead, Len(BytesRead) - Len(buffer) + 1,
                           Len(BytesRead))

\* C5 witness: one event was yielded and the buffer holds the next frame's
\* whole header and a part of its name, the rest still to be read.
C5_Witness ==
    /\ Len(out) = 1
    /\ Len(buffer) > StructHeaderLength
    /\ pending # <<>>
    /\ gen_exc = ""

----------------------------------------------------------------------------
(* Properties of the registry.                                             *)

Values(d) == { d[k] : k \in DOMAIN d }


\* path is tree itself or lies under it.
UnderTree(path, tree) == path = tree \/ StartsWith(path, tree \o Slash)

\* path has its inverse mapping in registry reg.
HasInverse(reg, path) ==
    /\ path \in DOMAIN reg.w
    /\ reg.w[path] \in DOMAIN reg.r
    /\ reg.r[reg.w[path]] = path

\* C1: whatever handles the kernel returns, every registered path has one
\* handle in the forward map, that handle maps back to the path in the
\* inverse map, no two paths share a handle, and the inverse map holds no
\* handle that is not the forward-map value of a registered path.
C1_OneEntryPerPathAndHandle ==
    /\ \A path \in DOMAIN watches : HasInverse(Reg, path)
    /\ \A p1 \in DOMAIN watches, p2 \in DOMAIN watches :
          watches[p1] = watches[p2] => p1 = p2
    /\ \A wd \in DOMAIN watches_r :
          \E path \in DOMAIN watches : watches[path] = wd

\* C2: the sorted index is strictly ascending in byte order (hence free of
\* duplicates) and holds exactly the keys of the forward map.
C2_IndexSortedAndInSync ==
    /\ \A i \in 1..Len(watches_l), j \in 1..Len(watches_l) :
          i < j => BytesLess(watches_l[i], watches_l[j])
    /\ SeqRange(watches_l) = DOMAIN watches

\* C2 witness: the index is full and in order after paths were added out of
\* order, and the inverse map still names a path that was removed or whose
\* handle was replaced by a second add_watch.
C2_Witness ==
    /\ Len(watches_l) = MaxWatches
    /\ watches_l[1] = <<47, 97>>
    /\ watches_l[2] = <<47, 97, 45>>
    /\ \E wd \in DOMAIN watches_r :
          watches_r[wd] \notin DOMAIN watches \/ watches[watches_r[wd]] # wd

\* C3: once remove_watch_tree(tree) has returned, no path that equals tree
\* or starts with tree + '/' is left in the forward map, the inverse map or
\* the sorted index.
C3_RemoveTreeRemovesSubtree ==
    (last.op = "remove_watch_tree" /\ last.exc = "") =>
        \A path \in Paths :
            UnderTree(path, last.path) =>
                /\ path \notin DOMAIN watches
                /\ path \notin Values(watches_r)
                /\ path \notin SeqRange(watches_l)

\* C4: remove_watch_tree(tree) leaves every entry that is neither tree nor
\* under tree + '/' untouched: its forward mapping, its inverse mapping and
\* its place among the untouched paths of the index are kept, and its
\* handle is not handed to inotify_rm_watch.
C4_RemoveTreeFrame ==
    [][last'.op = "remove_watch_tree" =>
          LET Outside(path) == ~UnderTree(path, last'.path)
          IN  /\ \A path \in DOMAIN watches :
                    Outside(path) =>
                        /\ path \in DOMAIN watches'
                        /\ watches'[path] = watches[path]
                        /\ HasInverse(Reg, path) => HasInverse(Reg', path)
                        /\ watches[path] \notin SeqRange(rm_calls')
              /\ SelectSeq(watches_l', Outside)
                    = SelectSeq(watches_l, Outside)]_vars

\* C15: add_watch for a path that is already registered fails with
\* DuplicateWatchError and leaves the forward map, the inverse map and the
\* index as they were (the kernel having accepted the path).
C15_DuplicateAddFails ==
    [][ (/\ last'.op = "add_watch"
         /\ last'.exc # "InotifyError"
         /\ last'.path \in DOMAIN watches) =>
          /\ last'.exc = "DuplicateWatchError"
          /\ UNCHANGED <<watches, watches_l, watches_r>> ]_vars

\* C16: when the kernel rejects the path, add_watch raises the error with
\* the path in it and the forward map, the inverse map and the index are
\* what they were before the call.
C16_RejectedAddLeavesRegistry ==
    /\ [](\A path \in Paths :
            AddWatch(Reg, path, Refused) =
               [reg |-> Reg, exc |-> "InotifyError", exc_path |-> path])
    /\ [][ (last'.op = "add_watch" /\ last'.exc = "InotifyError") =>
             UNCHANGED <<watches, watches_l, watches_r>> ]_vars

\* C16 witness: the kernel has just rejected a path that is not registered,
\* other paths being registered.
C16_Witness ==
    /\ last.op = "add_watch"
    /\ last.exc = "InotifyError"
    /\ last.path \notin DOMAIN watches
    /\ watches # EmptyDict

----------------------------------------------------------------------------
(* Properties of the tree watcher.                                         *)

\* C7: the tree watcher is transparent to event content: every item the
\* underlying sequence produced is yielded by the tree watcher once, as it
\* is and in order, so at most the item in hand is outstanding, and none is
\* once the tree watcher is back at the poll or has stopped.
C7_TreeTransparent ==
    /\ Len(delivered) <= Len(produced)
    /\ delivered = SubSeq(produced, 1, Len(delivered))
    /\ Len(produced) - Len(delivered) <= 1
    /\ pc \in {"poll", "raised"} => delivered = produced

\* The inodes reached from the root directory.
TreeInodes(f) == { i \in Inodes : f[i].kind # "free" /\ InTree(f, i) }

\* This step is the return of _load_tree.
LoadReturns == pc \in {"add", "list"} /\ pc' \in {"poll", "frame"}

\* Path p holds a watch with the tree watcher's mask on inode i.
WatchedAs(reg, kw, p, i) ==
    /\ p \in DOMAIN reg.w
    /\ reg.w[p] \in DOMAIN kw
    /\ kw[reg.w[p]] = [ino |-> i, mask |-> tree_mask]

\* C8: when _load_tree(root) returns and the filesystem did not change
\* during the call, root and every directory below it hold a watch with
\* the augmented mask, and no entry below root that is not a directory (a
\* regular file, a symbolic link) holds one; root is the constructor's
\* path or path/raw_name of a created or moved-to directory event.
C8_LoadTreeWatchesDirectories ==
    [][ (LoadReturns /\ load_static') =>
          \A i \in TreeInodes(fs') :
             LET p == RealPath(fs', i)
             IN  UnderTree(p, load_root) =>
                   IF fs'[i].kind = "dir"
                   THEN WatchedAs(Reg', kwatch', p, i)
                   ELSE p \notin DOMAIN watches' ]_vars

\* This step is the tree watcher running op for the frame it took from the
\* buffer.
Maintains(op) == pc = "frame" /\ buffer' # buffer /\ last'.op = op

\* The number of times wd was handed to inotify_rm_watch.
Requests(rm, wd) == Cardinality({ k \in 1..Len(rm) : rm[k] = wd })

\* C9: when the tree watcher processes an is-directory moved-from event
\* for path/raw_name, every path registered at or under path/raw_name loses
\* its bookkeeping (forward entry, index entry, inverse mapping) and the
\* kernel is asked once to drop each of their handles, and no other handle,
\* whatever else is watched.
C9_MovedFromRemovesSubtree ==
    [][ Maintains("remove_watch_tree") =>
          /\ \A p \in DOMAIN watches :
                UnderTree(p, last'.path) =>
                   /\ p \notin DOMAIN watches'
                   /\ p \notin SeqRange(watches_l')
                   /\ watches[p] \notin DOMAIN watches_r'
                   /\ Requests(rm_calls', watches[p]) = 1
          /\ \A wd \in SeqRange(rm_calls') :
                \E p \in DOMAIN watches :
                   UnderTree(p, last'.path) /\ watches[p] = wd ]_vars

\* C10: when the tree watcher processes an is-directory deleted event for
\* path/raw_name, the registry loses the entry of that path and nothing
\* else: every other path keeps its handle, its inverse mapping and its
\* place in the index, the kernel is not asked to drop a watch, and nothing
\* changes if the path is not registered.
C10_DeletedRemovesOnlyThatEntry ==
    [][ Maintains("remove_watch") =>
          /\ rm_calls' = <<>>
          /\ kwatch' = kwatch
          /\ last'.path \notin DOMAIN watches'
          /\ \A p \in DOMAIN watches \ {last'.path} :
                /\ p \in DOMAIN watches'
                /\ watches'[p] = watches[p]
                /\ HasInverse(Reg, p) => HasInverse(Reg', p)
          /\ LET Other(p) == p # last'.path
             IN  SelectSeq(watches_l', Other) = SelectSeq(watches_l, Other)
          /\ last'.path \notin DOMAIN watches =>
                UNCHANGED <<watches, watches_l, watches_r>> ]_vars

\* The entry at path is a symbolic link (lstat).
IsLink(f, path) ==
    \E i \in TreeInodes(f) : f[i].kind = "link" /\ RealPath(f, i) = path

\* C11: _load_tree follows no symbolic link: no entry that is a symbolic
\* link is put on q, and add_watch is called for none.
C11_LoadTreeFollowsNoSymlink ==
    [][ /\ (pc = "list" /\ pc' # "raised") =>
              \A k \in 1..Len(q') : ~IsLink(fs', q'[k])
        /\ (pc = "add" /\ pc' = "list") => ~IsLink(fs', cur_path') ]_vars

\* The event records among items, in order.
Events(items) == SelectSeq(items, LAMBDA e : e # NoEvent)

\* The tree watcher waits at the poll and nothing is left to read.
Quiescent == pc = "poll" /\ queue = <<>> /\ buffer = <<>>

\* C12: in the end-to-end scenario the consumer is yielded the
\* directory-created event of x with watched path D, then the file-created
\* event of y with watched path D/x, and nothing else; once y exists and
\* the tree watcher has read all there is, both have been yielded.
C12_EndToEndOrder ==
    LET seen == Events(delivered)
    IN  /\ pc # "raised"
        /\ Len(seen) <= 2
        /\ Len(seen) >= 1 =>
              \E x \in Children(fs, RootInode) :
                 IsEvent(seen[1], IN_CREATE + IN_ISDIR, RootPath, fs[x].name)
        /\ Len(seen) >= 2 =>
              \E x \in Children(fs, RootInode) :
                 \E y \in Children(fs, x) :
                    IsEvent(seen[2], IN_CREATE, PathJoin(RootPath, fs[x].name),
                            fs[y].name)
        /\ (fs_ops = 2 /\ Quiescent) => Len(seen) = 2

\* C12 witness: y was created and its event has reached the consumer.
C12_Witness ==
    /\ fs_ops = 2
    /\ Quiescent
    /\ Len(Events(delivered)) = 2
    /\ Events(delivered)[2].header.mask = IN_CREATE
    /\ Len(Events(delivered)[2].path) > Len(RootPath)

\* The heartbeat markers among items.
Heartbeats(items) == Len(SelectSeq(items, LAMBDA e : e = NoEvent))

\* C13: every poll cycle ends with one heartbeat marker, yielded after the
\* event records of the cycle: between two cycles there are as many
\* markers as polls that returned, the last item is a marker and no whole
\* frame is left undecoded; within a cycle the marker of that cycle is
\* still to come; and with no filesystem activity the consumer has seen
\* one marker per cycle and no event record.
C13_OneHeartbeatPerCycle ==
    /\ pc = "poll" =>
          /\ Heartbeats(produced) = cycles
          /\ Heartbeats(delivered) = cycles
          /\ cycles > 0 => delivered[Len(delivered)] = NoEvent
          /\ FrameStep(buffer, watches_r).kind = "stop"
    /\ pc = "frame" => Heartbeats(produced) = cycles - 1
    /\ (pc \in {"poll", "frame"} /\ fs_ops = 0) =>
          /\ Events(delivered) = <<>>
          /\ Len(delivered) = Heartbeats(delivered)

\* C13 witness: cycles have ended, one of them with an event record, and
\* the tree watcher is back at the poll.
C13_Witness ==
    /\ pc = "poll"
    /\ cycles = MaxCycles
    /\ Events(delivered) # <<>>
    /\ Heartbeats(delivered) = MaxCycles

\* C14: a poll that fails with EINTR is retried, the tree watcher staying
\* at the poll with nothing yielded and nothing raised; a poll that fails
\* with another errno ends the iteration with that error.
C14_InterruptedPollRetried ==
    /\ (last.op = "poll" /\ last.exc = "EINTR") => pc = "poll"
    /\ (last.op = "poll" /\ last.exc = "IOError") => pc = "raised"
    /\ (pc = "raised" /\ last.op = "poll") => last.exc = "IOError"

\* C14 witness: a poll was interrupted after a cycle and the tree watcher
\* is at the poll again, the items yielded before still being all.
C14_Witness ==
    /\ last.op = "poll" /\ last.exc = "EINTR"
    /\ pc = "poll"
    /\ cycles > 0
    /\ Heartbeats(delivered) = cycles

\* The OR of the bits MASK_LOOKUP gives the names.
RECURSIVE NamesOr(_)
NamesOr(names) ==
    IF names = <<>> THEN 0
    ELSE LET i == CHOOSE i \in 1..Len(MASK_LOOKUP) :
                      MASK_LOOKUP[i].name = Head(names)
         IN  BitOr(NamesOr(Tail(names)), MASK_LOOKUP[i].bit)

HasUnknownBit(m) == \E bit \in UnknownBits : BitAnd(m, bit) # 0

\* C17: the names __get_event_names returns for a mask of known bits OR
\* back to exactly that mask, so every event yielded carries the full
\* decomposition of its header's mask, and a frame of known bits is yielded
\* once read; a mask with a bit MASK_LOOKUP lacks is never yielded with the
\* bit left out: the generator ends with the failed assert instead.
C17_MaskDecompositionComplete ==
    /\ \A k \in 1..Len(out) :
          /\ NamesOr(out[k].type_names) = out[k].header.mask
          /\ \A n \in 1..Len(out[k].type_names) :
                \E i \in 1..Len(MASK_LOOKUP) :
                    MASK_LOOKUP[i].name = out[k].type_names[n]
    /\ \A k \in 1..Len(frames) :
          /\ HasUnknownBit(frames[k].mask) =>
                /\ out = <<>>
                /\ ~GetEventNames(frames[k].mask).ok
                /\ pending = <<>> => gen_exc = "AssertionError"
          /\ ~HasUnknownBit(frames[k].mask) =>
                /\ GetEventNames(frames[k].mask).ok
                /\ NamesOr(GetEventNames(frames[k].mask).names) = frames[k].mask
                /\ gen_exc = ""
                /\ pending = <<>> =>
                      /\ Len(out) = 1
                      /\ out[1].header.mask = frames[k].mask

\* C17 witness: a frame whose mask has two known bits was read and yielded
\* with both names.
C17_Witness ==
    /\ pending = <<>>
    /\ Len(out) = 1
    /\ Len(out[1].type_names) = MaxMaskBits
    /\ NamesOr(out[1].type_names) = frames[1].mask

\* C18: every pass of the framer's loop resolves the handle of the frame
\* at the front of the buffer in the inverse map as the tree watcher left
\* it after the frame before (the watcher is at "frame" only once it is
\* done with that frame): an event is produced exactly when the handle is
\* registered then and carries the path registered then, and a frame whose
\* watch was retired since the read is dropped.  (A step of the framer is
\* one that consumes bytes of the buffer.)
C18_LazyHandleResolution ==
    [][ (pc = "frame" /\ buffer' # buffer) =>
          LET step == FrameStep(buffer, watches_r)
          IN  /\ step.kind = "yield" =>
                    /\ produced' = Append(produced, step.event)
                    /\ step.event.path = watches_r[step.event.header.wd]
              /\ step.kind = "skip" =>
                    /\ produced' = produced
                    /\ delivered' = delivered
                    /\ UNCHANGED <<watches, watches_l, watches_r>>
              /\ step.kind \in {"yield", "skip"} => buffer' = step.buffer ]_vars

\* C18 witness: the frame at the front of the buffer is for a handle that
\* was registered when the bytes were read and that the tree watcher
\* retired while it handled an earlier frame of the same read.
C18_Witness ==
    /\ pc = "frame"
    /\ read_r # watches_r
    /\ FrameStep(buffer, read_r).kind = "yield"
    /\ FrameStep(buffer, watches_r).kind = "skip"
    /\ last.op \in {"remove_watch", "remove_watch_tree"}

\* C19: _load_tree calls add_watch only on paths absent from the registry.
C19_NoWatchRequestedTwice ==
    [][ (pc = "add" /\ pc' \in {"list", "raised"}) =>
          Head(q) \notin DOMAIN watches ]_vars

\* The paths of the directories that exist in the watched subtree.
Directories(f) == { RealPath(f, i) : i \in { j \in TreeInodes(f) :
                                                f[j].kind = "dir" } }

\* C20: whenever the tree watcher has consumed every queued event, the
\* registered paths are exactly the directories that exist in the watched
\* subtree, root included, and every registered handle is a watch active
\* in the kernel.
C20_WatchSetConverges ==
    Quiescent =>
        /\ DOMAIN watches = Directories(fs)
        /\ \A path \in DOMAIN watches : watches[path] \in DOMAIN kwatch

====
